---- MODULE Spec2Model ----
(***************************************************************************)
(* Mindify backend (src/backend.js): an Express application over three     *)
(* Mongoose collections (Post, Test, TestResult) and one outbound call to  *)
(* a chat-completion provider.                                             *)
(*                                                                         *)
(* Every route handler is an async function.  It runs without interruption *)
(* from one `await` to the next, and other requests may run in between.    *)
(* Each action below is one such uninterrupted stretch of one handler.     *)
(*                                                                         *)
(* Conventions of the model:                                               *)
(*   - a document identifier is the position of the document in its        *)
(*     collection (1, 2, ...); BadId is a path parameter that is not a     *)
(*     well-formed ObjectId;                                               *)
(*   - Absent is a body field that the request does not carry (undefined); *)
(*   - a question is the sequence of the scores of its options; option     *)
(*     indices in `answers` are 0-based as in the code, TLA+ sequences are *)
(*     1-based;                                                            *)
(*   - status 0 is "no response has been sent".                            *)
(***************************************************************************)
EXTENDS Integers, Sequences, FiniteSets, TLC

(* ------------------------------ bounds --------------------------------- *)
MaxReq == 2          \* requests received in one behaviour
MaxQuestions == 2    \* questions of a Test
MaxAnswers == 3      \* entries of a submitted answer list
MaxIndex == 4        \* largest answer index submitted (smallest is -1)

(* ------------------------------ values --------------------------------- *)
Absent == "<absent>"
BadId == 0
Reqs == 1..MaxReq

PostNotFound == "Post not found"
TestNotFound == "Test not found"
NoMessage == "No message provided."
ChatFailed == "Failed to fetch AI response."
Fallback == "Sorry, I couldn't respond."

(* JSON values of the provider's response body, tagged by type. *)
JUndef == [t |-> "undefined"]
JNull == [t |-> "null"]
JStr(s) == [t |-> "string", s |-> s]
JArr(a) == [t |-> "array", a |-> a]
JObj(f) == [t |-> "object", f |-> f]

(* x?.key of JavaScript: undefined unless x is an object that has the key. *)
Field(x, key) ==
  IF x.t = "object" THEN (IF key \in DOMAIN x.f THEN x.f[key] ELSE JUndef)
  ELSE JUndef

(* x?.[0] *)
First(x) ==
  IF x.t = "array" THEN (IF Len(x.a) > 0 THEN x.a[1] ELSE JUndef)
  ELSE JUndef

Truthy(x) ==
  CASE x.t = "string" -> x.s # ""
    [] x.t \in {"array", "object"} -> TRUE
    [] OTHER -> FALSE

(* Mutant: the || fallback is dropped. *)
ReplyOfNoFallback(data) ==
  Field(Field(First(Field(data, "choices")), "message"), "content")

(* data?.choices?.[0]?.message?.content || "Sorry, I couldn't respond." *)
ReplyOf(data) ==
  LET content == Field(Field(First(Field(data, "choices")), "message"), "content")
  IN IF Truthy(content) THEN content ELSE JStr(Fallback)

(* Mutant: only a missing message is refused, an empty one is relayed. *)
MessageUndefined(message) == message = Absent

(* !message *)
NoMessageGiven(message) == message = Absent \/ message = ""

(* ------------------------------ scoring -------------------------------- *)
(* Mutant: index 0 is taken for "no answer", as a truthiness test would. *)
DefinedTruthy(arr, k) == k > 0 /\ k < Len(arr)

(* arr[k] of JavaScript is defined exactly for 0 <= k < arr.length. *)
Defined(arr, k) == k >= 0 /\ k < Len(arr)

(* The forEach of lines 120-123, i being its 0-based index. *)
RECURSIVE ScoreLoop(_, _, _, _)
ScoreLoop(questions, answers, i, totalScore) ==
  IF i >= Len(questions) THEN totalScore
  ELSE LET options == questions[i + 1]
           selected == Defined(answers, i) /\ Defined(options, answers[i + 1])
       IN ScoreLoop(questions, answers, i + 1,
                    IF selected THEN totalScore + options[answers[i + 1] + 1]
                    ELSE totalScore)

TotalScore(test, answers) == ScoreLoop(test.questions, answers, 0, 0)

(* Mutant: the thresholds are inclusive. *)
ResultSummaryInclusive(totalScore) ==
  IF totalScore >= 25 THEN "High"
  ELSE IF totalScore >= 15 THEN "Moderate" ELSE "Low"

ResultSummary(totalScore) ==
  LET low == "Low"
      moderate == IF totalScore > 15 THEN "Moderate" ELSE low
  IN IF totalScore > 25 THEN "High" ELSE moderate

(* The answers path of TestResultSchema is an array: a document built      *)
(* without answers holds the empty array; a list of numbers is kept as is. *)
CastAnswers(hasAnswers, answers) == IF hasAnswers THEN answers ELSE <<>>

(* ------------------------------- state --------------------------------- *)
VARIABLES posts, tests, results, reqs, now

vars == <<posts, tests, results, reqs, now>>

NoDoc == [none |-> TRUE]

IdleReq ==
  [kind |-> "none", pc |-> "idle", id |-> BadId, message |-> Absent,
   hasAnswers |-> FALSE, answers |-> <<>>, anonymousId |-> Absent,
   doc |-> NoDoc, list |-> <<>>, status |-> 0, nresp |-> 0, error |-> "",
   thrown |-> "", score |-> 0, band |-> "", reply |-> JUndef, calls |-> 0,
   data |-> JUndef]

OptionLists == {<<0, 5, 10, 20>>, <<-4, 1, 6, 16>>}

QuestionLists == UNION {[1..n -> OptionLists] : n \in 0..MaxQuestions}

TestOf(questions) ==
  [title |-> "Stress", description |-> "Stress check", questions |-> questions]

SeedPost ==
  [title |-> "Hello", content |-> "First post", anonymousId |-> "anon0",
   timestamp |-> 1,
   replies |-> <<[message |-> "welcome", timestamp |-> 2]>>]

InitRest ==
  /\ posts \in {<<>>, <<SeedPost>>}
  /\ results = <<>>
  /\ reqs = [r \in Reqs |-> IdleReq]
  /\ now = 3

Init ==
  /\ tests \in {<<TestOf(<<>>)>>,
                <<TestOf([i \in 1..MaxQuestions |-> <<0, 5, 10, 20>>])>>}
  /\ InitRest

(* ------------------------------ helpers -------------------------------- *)
WellFormed(id) == id # BadId

(* Model.findById: the document, or null. *)
Exists(coll, id) == id \in 1..Len(coll)

(* Path parameters tried against a collection: every stored identifier,    *)
(* one well-formed identifier that is not stored, one malformed one.       *)
PathIds(coll) == {BadId} \cup (1..(Len(coll) + 1))

(* A request is received in slot r; slots fill in order of arrival. *)
Idle(r) ==
  /\ reqs[r].pc = "idle"
  /\ \A q \in Reqs : q < r => reqs[q].pc # "idle"

At(r, kind, pc) == reqs[r].kind = kind /\ reqs[r].pc = pc

Send(rq, status) ==
  [rq EXCEPT !.status = status, !.nresp = @ + 1, !.pc = "done"]

(* An error thrown in a handler outside any try block rejects the handler's *)
(* promise.  The handler sends nothing; what the client then sees is the    *)
(* framework's business: no response at all, or its own 500.                *)
Uncaught(rq, err) ==
  {[rq EXCEPT !.pc = "failed", !.thrown = err, !.status = s] : s \in {0, 500}}

(* --------------------------- POST /posts -------------------------------- *)
(* new Post({...}) takes its timestamp when it is built; save() is awaited. *)
CreatePostStart(r) ==
  /\ Idle(r)
  /\ \E anonymousId \in {Absent, "anon1"} :
       reqs' = [reqs EXCEPT ![r] =
         [@ EXCEPT !.kind = "createPost", !.pc = "save",
                   !.anonymousId = anonymousId,
                   !.doc = [title |-> "Title", content |-> "Content",
                            anonymousId |-> anonymousId, timestamp |-> now,
                            replies |-> <<>>]]]
  /\ now' = now + 1
  /\ UNCHANGED <<posts, tests, results>>

CreatePostSave(r) ==
  /\ At(r, "createPost", "save")
  /\ posts' = Append(posts, reqs[r].doc)
  /\ reqs' = [reqs EXCEPT ![r].pc = "respond", ![r].id = Len(posts) + 1]
  /\ UNCHANGED <<tests, results, now>>

CreatePostRespond(r) ==
  /\ At(r, "createPost", "respond")
  /\ reqs' = [reqs EXCEPT ![r] = Send(@, 201)]
  /\ UNCHANGED <<posts, tests, results, now>>

(* ---------------------------- GET /posts -------------------------------- *)
(* Post.find().sort({ timestamp: -1 }): the identifiers, newest first. *)
RECURSIVE NewestFirst(_, _)
NewestFirst(coll, ids) ==
  IF ids = {} THEN <<>>
  ELSE LET top == CHOOSE i \in ids :
                    \A j \in ids : \/ coll[j].timestamp < coll[i].timestamp
                                   \/ (coll[j].timestamp = coll[i].timestamp /\ i <= j)
       IN <<top>> \o NewestFirst(coll, ids \ {top})

ListPostsStart(r) ==
  /\ Idle(r)
  /\ reqs' = [reqs EXCEPT ![r].kind = "listPosts", ![r].pc = "find"]
  /\ UNCHANGED <<posts, tests, results, now>>

ListPostsRespond(r) ==
  /\ At(r, "listPosts", "find")
  /\ reqs' = [reqs EXCEPT ![r] =
       Send([@ EXCEPT !.list = NewestFirst(posts, 1..Len(posts))], 200)]
  /\ UNCHANGED <<posts, tests, results, now>>

(* -------------------------- GET /posts/:id ------------------------------ *)
GetPostStart(r) ==
  /\ Idle(r)
  /\ \E id \in PathIds(posts) :
       reqs' = [reqs EXCEPT ![r].kind = "getPost", ![r].pc = "find", ![r].id = id]
  /\ UNCHANGED <<posts, tests, results, now>>

(* findById rejects with a CastError for an id that is no ObjectId: thrown  *)
(* at the await of line 88, outside any try.                                *)
GetPostRespond(r) ==
  /\ At(r, "getPost", "find")
  /\ LET rq == reqs[r] IN
       \E next \in (IF ~WellFormed(rq.id) THEN Uncaught(rq, "CastError")
                    ELSE IF ~Exists(posts, rq.id)
                      THEN {Send([rq EXCEPT !.error = PostNotFound], 404)}
                    ELSE {Send([rq EXCEPT !.doc = posts[rq.id]], 200)}) :
         reqs' = [reqs EXCEPT ![r] = next]
  /\ UNCHANGED <<posts, tests, results, now>>

(* ----------------------- POST /posts/:id/reply -------------------------- *)
ReplyStart(r) ==
  /\ Idle(r)
  /\ \E id \in PathIds(posts), message \in {Absent, "me too"} :
       reqs' = [reqs EXCEPT ![r].kind = "reply", ![r].pc = "find",
                            ![r].id = id, ![r].message = message]
  /\ UNCHANGED <<posts, tests, results, now>>

(* Lines 95-98 up to the await of save(): the handler holds its own copy of *)
(* the Post as read, and pushes the reply onto that copy; the reply         *)
(* subdocument takes its timestamp (default Date.now) when it is pushed.    *)
ReplyFind(r) ==
  /\ At(r, "reply", "find")
  /\ LET rq == reqs[r]
         found == Exists(posts, rq.id)
         reply == [message |-> rq.message, timestamp |-> now]
     IN /\ \E next \in (IF ~WellFormed(rq.id) THEN Uncaught(rq, "CastError")
                        ELSE IF ~found
                          THEN {Send([rq EXCEPT !.error = PostNotFound], 404)}
                        ELSE {[rq EXCEPT !.pc = "save",
                                 !.doc = [posts[rq.id] EXCEPT
                                            !.replies = Append(@, reply)]]}) :
             reqs' = [reqs EXCEPT ![r] = next]
        /\ now' = IF WellFormed(rq.id) /\ found THEN now + 1 ELSE now
  /\ UNCHANGED <<posts, tests, results>>

(* Mutant: save() writes the handler's copy of the array over the stored one. *)
SavedRepliesOverwritten(stored, local) == local

(* Mutant: the new reply is put in front (unshift for push). *)
SavedRepliesInFront(stored, local) == <<local[Len(local)]>> \o stored

(* What save() makes of the stored reply list.  The document array records  *)
(* the push, and save() sends that push to the store ($push of the new      *)
(* subdocument on the stored array), not the handler's copy of the array.   *)
SavedReplies(stored, local) == Append(stored, local[Len(local)])

ReplySave(r) ==
  /\ At(r, "reply", "save")
  /\ posts' = [posts EXCEPT ![reqs[r].id].replies =
                 SavedReplies(@, reqs[r].doc.replies)]
  /\ reqs' = [reqs EXCEPT ![r].pc = "respond"]
  /\ UNCHANGED <<tests, results, now>>

(* res.status(201).json(post): the handler's copy, not a fresh read. *)
ReplyRespond(r) ==
  /\ At(r, "reply", "respond")
  /\ reqs' = [reqs EXCEPT ![r] = Send(@, 201)]
  /\ UNCHANGED <<posts, tests, results, now>>

(* ---------------------------- GET /tests -------------------------------- *)
ListTestsStart(r) ==
  /\ Idle(r)
  /\ reqs' = [reqs EXCEPT ![r].kind = "listTests", ![r].pc = "find"]
  /\ UNCHANGED <<posts, tests, results, now>>

(* Test.find({}, 'title description'): the projection drops the questions. *)
ListTestsRespond(r) ==
  /\ At(r, "listTests", "find")
  /\ reqs' = [reqs EXCEPT ![r] =
       Send([@ EXCEPT !.list =
               [i \in 1..Len(tests) |->
                  [id |-> i, title |-> tests[i].title,
                   description |-> tests[i].description]]], 200)]
  /\ UNCHANGED <<posts, tests, results, now>>

(* -------------------------- GET /tests/:id ------------------------------ *)
GetTestStart(r) ==
  /\ Idle(r)
  /\ \E id \in PathIds(tests) :
       reqs' = [reqs EXCEPT ![r].kind = "getTest", ![r].pc = "find", ![r].id = id]
  /\ UNCHANGED <<posts, tests, results, now>>

GetTestRespond(r) ==
  /\ At(r, "getTest", "find")
  /\ LET rq == reqs[r] IN
       \E next \in (IF ~WellFormed(rq.id) THEN Uncaught(rq, "CastError")
                    ELSE IF ~Exists(tests, rq.id)
                      THEN {Send([rq EXCEPT !.error = TestNotFound], 404)}
                    ELSE {Send([rq EXCEPT !.doc = tests[rq.id]], 200)}) :
         reqs' = [reqs EXCEPT ![r] = next]
  /\ UNCHANGED <<posts, tests, results, now>>

(* ----------------------- POST /tests/:id/submit ------------------------ *)
Indices == (0 - 1)..MaxIndex

AnswerLists == UNION {[1..n -> Indices] : n \in 0..MaxAnswers}

SomeAnswerLists == {<<>>, <<1>>, <<3, 2>>, <<MaxIndex, 0 - 1, 0>>}

SubmitStart(r, lists) ==
  /\ Idle(r)
  /\ \E id \in PathIds(tests), hasAnswers \in BOOLEAN, anonymousId \in {"anon1"} :
       \E answers \in (IF hasAnswers THEN lists ELSE {<<>>}) :
         reqs' = [reqs EXCEPT ![r] =
           [@ EXCEPT !.kind = "submit", !.pc = "find", !.id = id,
                     !.hasAnswers = hasAnswers, !.answers = answers,
                     !.anonymousId = anonymousId]]
  /\ UNCHANGED <<posts, tests, results, now>>

(* Lines 116-136 up to the await of save().  With no answers in the body,   *)
(* answers[i] (line 121) is a property read of undefined: a TypeError, as   *)
(* soon as the Test has a question to iterate over.                         *)
SubmitFind(r) ==
  /\ At(r, "submit", "find")
  /\ LET rq == reqs[r]
         found == Exists(tests, rq.id)
         test == tests[rq.id]
         throws == ~rq.hasAnswers /\ Len(test.questions) > 0
         totalScore == TotalScore(test, rq.answers)
         resultSummary == ResultSummary(totalScore)
         result == [testId |-> rq.id, anonymousId |-> rq.anonymousId,
                    answers |-> CastAnswers(rq.hasAnswers, rq.answers),
                    score |-> totalScore, resultSummary |-> resultSummary,
                    timestamp |-> now, req |-> r]
     IN /\ \E next \in (IF ~WellFormed(rq.id) THEN Uncaught(rq, "CastError")
                        ELSE IF ~found
                          THEN {Send([rq EXCEPT !.error = TestNotFound], 404)}
                        ELSE IF throws THEN Uncaught(rq, "TypeError")
                        ELSE {[rq EXCEPT !.pc = "save", !.doc = result,
                                 !.score = totalScore, !.band = resultSummary]}) :
             reqs' = [reqs EXCEPT ![r] = next]
        /\ now' = IF WellFormed(rq.id) /\ found /\ ~throws THEN now + 1 ELSE now
  /\ UNCHANGED <<posts, tests, results>>

(* Mutant: the handler goes on to respond while nothing has been stored. *)
SubmitSaveLost(r) ==
  /\ At(r, "submit", "save")
  /\ reqs' = [reqs EXCEPT ![r].pc = "respond"]
  /\ UNCHANGED <<posts, tests, results, now>>

SubmitSave(r) ==
  /\ At(r, "submit", "save")
  /\ results' = Append(results, reqs[r].doc)
  /\ reqs' = [reqs EXCEPT ![r].pc = "respond"]
  /\ UNCHANGED <<posts, tests, now>>

SubmitRespond(r) ==
  /\ At(r, "submit", "respond")
  /\ reqs' = [reqs EXCEPT ![r] = Send(@, 200)]
  /\ UNCHANGED <<posts, tests, results, now>>

(* ------------------------------ POST /chat ------------------------------ *)
Choice(content) == JObj([message |-> JObj([role |-> JStr("assistant"), content |-> content])])

(* Bodies the provider may answer with.  parses: response.json() succeeds. *)
ProviderBodies ==
  << [parses |-> FALSE, json |-> JUndef],
     [parses |-> TRUE, json |-> JNull],
     [parses |-> TRUE, json |-> JObj([error |-> JStr("unauthorized")])],
     [parses |-> TRUE, json |-> JObj([choices |-> JArr(<<>>)])],
     [parses |-> TRUE, json |-> JObj([choices |-> JArr(<<JObj([index |-> JStr("0")])>>)])],
     [parses |-> TRUE, json |-> JObj([choices |-> JArr(<<Choice(JNull)>>)])],
     [parses |-> TRUE, json |-> JObj([choices |-> JArr(<<Choice(JStr(""))>>)])],
     [parses |-> TRUE, json |-> JObj([choices |-> JArr(<<Choice(JStr("Hi")), Choice(JStr("Hey"))>>)])] >>

(* Lines 144-161 up to the await of fetch(): the presence check, then the   *)
(* outbound call is started.                                                *)
ChatStart(r) ==
  /\ Idle(r)
  /\ \E message \in {Absent, "", "hello"} :
       reqs' = [reqs EXCEPT ![r] =
         IF NoMessageGiven(message)
         THEN Send([@ EXCEPT !.kind = "chat", !.message = message,
                             !.error = NoMessage], 400)
         ELSE [@ EXCEPT !.kind = "chat", !.message = message,
                        !.pc = "fetch", !.calls = @ + 1]]
  /\ UNCHANGED <<posts, tests, results, now>>

(* catch (err): the error is logged, the client gets the fixed message. *)
Caught(rq, err) == Send([rq EXCEPT !.thrown = err, !.error = ChatFailed], 500)

(* fetch() settles: it rejects (transport failure), or a response arrives. *)
ChatFetch(r) ==
  /\ At(r, "chat", "fetch")
  /\ \/ reqs' = [reqs EXCEPT ![r] = Caught(@, "FetchError")]
     \/ \E b \in 1..Len(ProviderBodies) :
          reqs' = [reqs EXCEPT ![r].pc = "json", ![r].data = ProviderBodies[b]]
  /\ UNCHANGED <<posts, tests, results, now>>

(* response.json() settles, then lines 164-165. *)
ChatJson(r) ==
  /\ At(r, "chat", "json")
  /\ LET rq == reqs[r]
         data == rq.data.json
         reply == ReplyOf(data)
     IN reqs' = [reqs EXCEPT ![r] =
          IF ~rq.data.parses THEN Caught(rq, "SyntaxError")
          ELSE Send([rq EXCEPT !.reply = reply], 200)]
  /\ UNCHANGED <<posts, tests, results, now>>

(* ---------------------------- specification ----------------------------- *)
ForumNext ==
  \E r \in Reqs :
    \/ CreatePostStart(r) \/ CreatePostSave(r) \/ CreatePostRespond(r)
    \/ ListPostsStart(r) \/ ListPostsRespond(r)
    \/ GetPostStart(r) \/ GetPostRespond(r)
    \/ ReplyStart(r) \/ ReplyFind(r) \/ ReplySave(r) \/ ReplyRespond(r)

AssessNext ==
  \E r \in Reqs :
    \/ ListTestsStart(r) \/ ListTestsRespond(r)
    \/ GetTestStart(r) \/ GetTestRespond(r)
    \/ SubmitStart(r, SomeAnswerLists) \/ SubmitFind(r) \/ SubmitSave(r)
    \/ SubmitRespond(r)

ChatNext ==
  \E r \in Reqs : ChatStart(r) \/ ChatFetch(r) \/ ChatJson(r)

Next == ForumNext \/ AssessNext \/ ChatNext

(* The whole application. *)
Spec == Init /\ [][Next]_vars

(* The three groups of routes share no state but the clock: each is also    *)
(* explored alone, which leaves room for more requests.                     *)
ForumSpec == Init /\ [][ForumNext]_vars

AssessSpec == Init /\ [][AssessNext]_vars

(* The provider call settles (the transport answers or gives up) and the    *)
(* event loop then runs the handler's continuation.                         *)
ChatSpec ==
  /\ Init
  /\ [][ChatNext]_vars
  /\ \A r \in Reqs : WF_vars(ChatFetch(r)) /\ WF_vars(ChatJson(r))

(* One submission, over every Test of up to MaxQuestions questions and      *)
(* every answer list of up to MaxAnswers indices in -1..MaxIndex.           *)
ScoreInit ==
  /\ tests \in {<<TestOf(questions)>> : questions \in QuestionLists}
  /\ InitRest

ScoreNext ==
  \/ SubmitStart(1, AnswerLists) \/ SubmitFind(1) \/ SubmitSave(1)
  \/ SubmitRespond(1)

ScoreSpec == ScoreInit /\ [][ScoreNext]_vars

(* ------------------------------- claims --------------------------------- *)
Finished(rq) == rq.pc \in {"done", "failed"}

Min(a, b) == IF a < b THEN a ELSE b

(* The score that question i (1-based) contributes under the answer list. *)
Contribution(test, answers, i) ==
  IF i \in DOMAIN answers /\ answers[i] \in 0..(Len(test.questions[i]) - 1)
  THEN test.questions[i][answers[i] + 1]
  ELSE 0

RECURSIVE SumOfContributions(_, _, _)
SumOfContributions(test, answers, qs) ==
  IF qs = {} THEN 0
  ELSE LET i == CHOOSE j \in qs : TRUE
       IN Contribution(test, answers, i) + SumOfContributions(test, answers, qs \ {i})

ExpectedScore(test, answers) ==
  SumOfContributions(test, answers, 1..Len(test.questions))

(* C1: the score of a submission with an answer list is the sum, over the   *)
(* questions of the Test, of the score of the selected option where the     *)
(* answer is a valid option index and 0 where it is missing or out of       *)
(* range; the entries beyond the number of questions change nothing.        *)
C1_ScoreIsSumOfSelected ==
  \A r \in Reqs :
    LET rq == reqs[r] IN
      (rq.kind = "submit" /\ rq.hasAnswers /\ rq.status = 200) =>
        LET test == tests[rq.id]
            n == Len(test.questions)
        IN /\ rq.score = ExpectedScore(test, rq.answers)
           /\ rq.score = TotalScore(test, SubSeq(rq.answers, 1, Min(n, Len(rq.answers))))

(* A scored submission with a valid first answer, an out-of-range second    *)
(* answer and an entry beyond the questions.                                *)
C1_Witness ==
  \E r \in Reqs :
    LET rq == reqs[r] IN
      /\ rq.kind = "submit" /\ rq.hasAnswers /\ rq.status = 200
      /\ Len(tests[rq.id].questions) = 2
      /\ Len(rq.answers) = 3
      /\ rq.answers[1] = 1
      /\ rq.answers[2] \notin 0..(Len(tests[rq.id].questions[2]) - 1)
      /\ rq.score > 0

(* C2: the band is "Low" exactly for a total of at most 15, "Moderate"      *)
(* exactly for a total above 15 and at most 25, "High" exactly above 25.    *)
C2_BandThresholds ==
  \A r \in Reqs :
    LET rq == reqs[r] IN
      (rq.kind = "submit" /\ rq.status = 200) =>
        /\ (rq.band = "Low") <=> (rq.score <= 15)
        /\ (rq.band = "Moderate") <=> (rq.score > 15 /\ rq.score <= 25)
        /\ (rq.band = "High") <=> (rq.score > 25)

C2_Witness ==
  \E r \in Reqs :
    reqs[r].kind = "submit" /\ reqs[r].status = 200
      /\ reqs[r].score = 25 /\ reqs[r].band = "Moderate"

(* The other totals the claim names are reached as well. *)
C2_Reaches15 == \E r \in Reqs : reqs[r].status = 200 /\ reqs[r].score = 15 /\ reqs[r].band = "Low"
C2_Reaches16 == \E r \in Reqs : reqs[r].status = 200 /\ reqs[r].score = 16 /\ reqs[r].band = "Moderate"
C2_Reaches26 == \E r \in Reqs : reqs[r].status = 200 /\ reqs[r].score = 26 /\ reqs[r].band = "High"
C2_ReachesNegative == \E r \in Reqs : reqs[r].status = 200 /\ reqs[r].score < 0 /\ reqs[r].band = "Low"

(* C3: a submission to an existing Test never raises an error, whatever its *)
(* answers (absent, empty, short, out of range): the handler ends with a    *)
(* 200 carrying a score and a band, and an empty answer list scores 0,      *)
(* "Low".                                                                   *)
C3_SubmitNeverRaises ==
  \A r \in Reqs :
    LET rq == reqs[r] IN
      (rq.kind = "submit" /\ Exists(tests, rq.id) /\ Finished(rq)) =>
        /\ rq.pc = "done"
        /\ rq.status = 200
        /\ rq.band \in {"Low", "Moderate", "High"}
        /\ (rq.hasAnswers /\ rq.answers = <<>>) => (rq.score = 0 /\ rq.band = "Low")

(* C4: a GET /posts/:id, POST /posts/:id/reply, GET /tests/:id or           *)
(* POST /tests/:id/submit whose identifier matches no stored document is    *)
(* answered 404 with an error payload: never 500, never 200 or 201, never   *)
(* left without a response.                                                 *)
Collection(rq) == IF rq.kind \in {"getPost", "reply"} THEN posts ELSE tests

C4_UnknownIdGives404 ==
  \A r \in Reqs :
    LET rq == reqs[r] IN
      (/\ rq.kind \in {"getPost", "reply", "getTest", "submit"}
       /\ ~Exists(Collection(rq), rq.id)
       /\ Finished(rq)) =>
        rq.status = 404 /\ rq.nresp = 1 /\ rq.error # ""

(* The reply that request r pushed onto its copy of the Post. *)
NewReply(r) == reqs[r].doc.replies[Len(reqs[r].doc.replies)]

Holds(replies, reply) == \E i \in DOMAIN replies : replies[i] = reply

Pushed(r) ==
  reqs[r].kind = "reply" /\ (reqs[r].pc \in {"save", "respond"} \/ reqs[r].status = 201)

(* C5: the save of a reply request (which its 201 follows) makes the stored *)
(* reply list of its Post the previous stored list with exactly one reply   *)
(* appended, carrying the request's message and a timestamp taken from the  *)
(* server's clock; the prior replies keep content and order, no other Post  *)
(* changes, and nothing but such a save changes any reply list.             *)
C5_ReplyAppendsExactlyOne ==
  [][/\ \A r \in Reqs :
          (reqs[r].kind = "reply" /\ reqs[r].pc = "save" /\ reqs'[r].pc # "save") =>
            LET id == reqs[r].id IN
              /\ Len(posts') = Len(posts)
              /\ Len(posts'[id].replies) = Len(posts[id].replies) + 1
              /\ SubSeq(posts'[id].replies, 1, Len(posts[id].replies)) = posts[id].replies
              /\ posts'[id].replies[Len(posts'[id].replies)].message = reqs[r].message
              /\ posts'[id].replies[Len(posts'[id].replies)].timestamp < now
              /\ posts'[id] = [posts[id] EXCEPT !.replies = posts'[id].replies]
              /\ \A p \in 1..Len(posts) : p # id => posts'[p] = posts[p]
     /\ \A r \in Reqs :
          (reqs[r].kind = "reply" /\ reqs[r].status = 0 /\ reqs'[r].status = 201) =>
            reqs[r].pc = "respond"
     /\ (\E p \in 1..Len(posts) : posts'[p].replies # posts[p].replies) =>
          \E r \in Reqs : reqs[r].kind = "reply" /\ reqs[r].pc = "save"
                            /\ reqs'[r].pc = "respond"
    ]_vars

(* A reply answered 201 on a Post that already held a reply, while another  *)
(* reply request to the same Post was under way.                            *)
C5_Witness ==
  \E r, q \in Reqs :
    /\ r # q
    /\ reqs[r].kind = "reply" /\ reqs[r].status = 201
    /\ Pushed(q) /\ reqs[q].id = reqs[r].id
    /\ Len(posts[reqs[r].id].replies) >= 2
    /\ Holds(posts[reqs[r].id].replies, NewReply(r))

(* Two reply requests to one Post, each of which read the Post before the   *)
(* other saved it: neither copy holds the other's reply.                    *)
ReadBeforeEitherSaved(r, q) ==
  /\ r # q
  /\ Pushed(r) /\ Pushed(q)
  /\ reqs[r].id = reqs[q].id
  /\ ~Holds(reqs[r].doc.replies, NewReply(q))
  /\ ~Holds(reqs[q].doc.replies, NewReply(r))

(* C9 as claimed: when two reply requests to one Post both read it before   *)
(* either saved, the later save wins: once both are answered 201 the stored *)
(* Post holds only one of the two new replies.                              *)
C9_LaterSaveWins ==
  \A r, q \in Reqs :
    (ReadBeforeEitherSaved(r, q) /\ reqs[r].status = 201 /\ reqs[q].status = 201) =>
      LET stored == posts[reqs[r].id].replies IN
        ~(Holds(stored, NewReply(r)) /\ Holds(stored, NewReply(q)))

(* C9 as amended: there is no compare-and-swap, and none is needed for the  *)
(* stored list: when two reply requests to one Post both read it before     *)
(* either saved and both are answered 201, the stored Post holds both new   *)
(* replies next to every reply either of them read; only the Post returned  *)
(* in each 201 lacks the other request's reply.                             *)
C9_BothRepliesStored ==
  \A r, q \in Reqs :
    (ReadBeforeEitherSaved(r, q) /\ reqs[r].status = 201 /\ reqs[q].status = 201) =>
      LET stored == posts[reqs[r].id].replies IN
        /\ Holds(stored, NewReply(r))
        /\ Holds(stored, NewReply(q))
        /\ \A i \in DOMAIN reqs[r].doc.replies : Holds(stored, reqs[r].doc.replies[i])
        /\ Len(stored) >= Len(reqs[r].doc.replies) + 1

C9_Witness ==
  \E r, q \in Reqs :
    ReadBeforeEitherSaved(r, q) /\ reqs[r].status = 201 /\ reqs[q].status = 201

(* C6: a POST /chat whose body has no message, or an empty one, is answered *)
(* 400 with an error payload, and no outbound call to the provider is ever  *)
(* started for it, before or after the response.                            *)
C6_NoMessageNoOutboundCall ==
  \A r \in Reqs :
    LET rq == reqs[r] IN
      (rq.kind = "chat" /\ (rq.message = Absent \/ rq.message = "")) =>
        /\ rq.calls = 0
        /\ rq.pc = "done"
        /\ rq.status = 400 /\ rq.nresp = 1 /\ rq.error = NoMessage

C6_Witness ==
  /\ \E r \in Reqs : reqs[r].kind = "chat" /\ reqs[r].message = "" /\ reqs[r].status = 400
  /\ \E r \in Reqs : reqs[r].kind = "chat" /\ reqs[r].message = Absent /\ reqs[r].status = 400

(* The text of the first completion choice of a parsed provider body, where *)
(* the body has one. *)
HasFirstText(json) ==
  /\ json.t = "object" /\ "choices" \in DOMAIN json.f
  /\ json.f.choices.t = "array" /\ Len(json.f.choices.a) >= 1
  /\ json.f.choices.a[1].t = "object" /\ "message" \in DOMAIN json.f.choices.a[1].f
  /\ json.f.choices.a[1].f.message.t = "object"
  /\ "content" \in DOMAIN json.f.choices.a[1].f.message.f
  /\ json.f.choices.a[1].f.message.f.content.t = "string"
  /\ json.f.choices.a[1].f.message.f.content.s # ""

FirstText(json) == json.f.choices.a[1].f.message.f.content

ChatWithMessage(rq) == rq.kind = "chat" /\ rq.message # Absent /\ rq.message # ""

ChatAnsweredOnce(rq) ==
  /\ rq.nresp <= 1
  /\ rq.calls = 1
  /\ (rq.nresp = 1) <=> (rq.pc = "done")
  /\ rq.pc = "done" =>
       \/ /\ rq.thrown # ""
          /\ rq.status = 500 /\ rq.error = ChatFailed /\ rq.error # rq.thrown
          /\ rq.reply = JUndef
       \/ /\ rq.thrown = "" /\ rq.data.parses
          /\ rq.status = 200 /\ rq.error = ""
          /\ rq.reply = IF HasFirstText(rq.data.json) THEN FirstText(rq.data.json)
                        ELSE JStr(Fallback)
  /\ (rq.pc = "done" /\ rq.data # JUndef /\ ~rq.data.parses) => rq.status = 500

C7_ReachesFallback ==
  \E r \in Reqs : ChatWithMessage(reqs[r]) /\ reqs[r].status = 200
                    /\ reqs[r].reply = JStr(Fallback)

C7_ReachesParseFailure ==
  \E r \in Reqs : ChatWithMessage(reqs[r]) /\ reqs[r].status = 500
                    /\ reqs[r].thrown = "SyntaxError"

(* The TestResult records that request r created. *)
ResultsOf(r) == {i \in DOMAIN results : results[i].req = r}

(* C8: the TestResult collection is append-only: every submit request to an *)
(* existing Test creates exactly one TestResult, a submit request answered  *)
(* 404 creates none, and no operation modifies or deletes a TestResult.     *)
C8_ResultsAppendOnly ==
  /\ [](\A r \in Reqs :
          LET rq == reqs[r] IN
            /\ (rq.kind = "submit" /\ Exists(tests, rq.id) /\ Finished(rq)) =>
                 Cardinality(ResultsOf(r)) = 1
            /\ (rq.kind = "submit" /\ rq.status = 404) => ResultsOf(r) = {}
            /\ Cardinality(ResultsOf(r)) <= 1)
  /\ [][/\ Len(results') >= Len(results)
        /\ SubSeq(results', 1, Len(results)) = results]_vars

(* C10: when a submit request gets its 200, a TestResult of that request is *)
(* already stored, exactly one, and it carries the identifier of the        *)
(* resolved Test, the request's anonymousId and answers, and the score and  *)
(* band of the response.                                                    *)
C10_ResultSavedBefore200 ==
  \A r \in Reqs :
    LET rq == reqs[r] IN
      (rq.kind = "submit" /\ rq.status = 200) =>
        /\ Cardinality(ResultsOf(r)) = 1
        /\ \A i \in ResultsOf(r) :
             /\ results[i].testId = rq.id
             /\ Exists(tests, results[i].testId)
             /\ results[i].anonymousId = rq.anonymousId
             /\ rq.hasAnswers => results[i].answers = rq.answers
             /\ results[i].score = rq.score
             /\ results[i].resultSummary = rq.band
             /\ results[i].timestamp < now

(* Two scored submissions, both answered, each with its own record. *)
C10_Witness ==
  \E r, q \in Reqs :
    /\ r # q
    /\ reqs[r].kind = "submit" /\ reqs[r].status = 200 /\ reqs[r].score > 0
    /\ reqs[q].kind = "submit" /\ reqs[q].status = 200
    /\ reqs[q].answers # reqs[r].answers
    /\ Len(results) = 2

====
